---- MODULE Spec2Model ----
(***************************************************************************)
(* Elite Dangerous Joystick Helper: the event loop of EDJoystickHelper     *)
(* (ed_joystick_helper.py), the executor threads it spawns, the reload of  *)
(* the mapping table (reload_config, main.load_config_from_ini) and the    *)
(* stop request.  Strings are the program's strings; durations are in      *)
(* milliseconds.                                                           *)
(***************************************************************************)
EXTENDS Integers, Sequences, FiniteSets, Bags, TLC

(***************************************************************************)
(* Bounds of the model.                                                    *)
(***************************************************************************)
\* threads running _execute_sequence that exist at the same time
MaxExecutors == 1
\* events one call of pygame.event.get() returns
MaxBatch == 1
\* threads at the same time in the keyboard-only world of ExecSpec
MaxPair == 2
\* the largest axis value a hat reports in HatSpec: one past the range
MaxAxis == 2

(***************************************************************************)
(* The attached devices and the input alphabet.                            *)
(***************************************************************************)
\* the joystick counts pygame.joystick.get_count() may report
JoystickCounts == {0, 1, 2}

\* joystick.get_numhats() of device j when count devices are attached: a
\* single device is a pad with one hat, two devices are sticks without hats
NumHats(count, j) == IF count = 1 /\ j = 0 THEN 1 ELSE 0

\* the buttons of device j
DeviceButtons(j) == {1}

\* the hat values (x, y) the devices report
HatValues == {<<0, 0>>, <<0, 1>>, <<1, 0>>}

\* pygame.key.name(event.key) of the keys that are used
KeyNames == {"a", "space"}

\* str(n) of the f-strings
ToStr(n) ==
  CASE n = 0 -> "0" [] n = 1 -> "1" [] n = 2 -> "2" [] n = 3 -> "3"
    [] n = 27 -> "27"

\* key_name.upper()
Upper(s) == CASE s = "space" -> "SPACE" [] s = "a" -> "A" [] OTHER -> s

None == "None"

(***************************************************************************)
(* Canonical identifiers, as the f-strings of the source build them.       *)
(***************************************************************************)
\* f"BUTTON_{event.button}"
ButtonName(b) == "BUTTON_" \o ToStr(b)

\* a name that leaves the device out
PressedName_Unqualified(b, j) == ButtonName(b)

\* f"{button_name}_JOY{joy_id}", the name added to pressed_buttons
PressedName(b, j) == ButtonName(b) \o "_JOY" \o ToStr(j)

\* An optional argument joy_id: <<>> is Python's None, <<j>> the joystick j.
NoJoy == <<>>
Joy(j) == <<j>>

\* config_key of _process_button_press(button_name, joy_id)
ConfigKey(button_name, joy_id) ==
  IF joy_id # NoJoy
    THEN button_name \o "_JOY" \o ToStr(joy_id[1])
    ELSE button_name

\* key_id of a keyboard event
KeyId(key_name) ==
  IF Len(key_name) > 1 THEN "KEY_" \o Upper(key_name) ELSE key_name

\* a resolver that reads the sign of an axis, not its value
Direction_Sign(x_value, y_value) ==
  LET sgn(v) == IF v > 0 THEN 1 ELSE IF v < 0 THEN -1 ELSE 0
      x == sgn(x_value)
      y == sgn(y_value)
  IN  CASE x = 0 /\ y = 1 -> "up"
        [] x = 1 /\ y = 1 -> "up-right"
        [] x = 1 /\ y = 0 -> "right"
        [] x = 1 /\ y = -1 -> "down-right"
        [] x = 0 /\ y = -1 -> "down"
        [] x = -1 /\ y = -1 -> "down-left"
        [] x = -1 /\ y = 0 -> "left"
        [] x = -1 /\ y = 1 -> "up-left"
        [] OTHER -> "centered"

\* the direction of a hat value
Direction(x_value, y_value) ==
  IF x_value = 0 /\ y_value = 1 THEN "up"
  ELSE IF x_value = 1 /\ y_value = 1 THEN "up-right"
  ELSE IF x_value = 1 /\ y_value = 0 THEN "right"
  ELSE IF x_value = 1 /\ y_value = -1 THEN "down-right"
  ELSE IF x_value = 0 /\ y_value = -1 THEN "down"
  ELSE IF x_value = -1 /\ y_value = -1 THEN "down-left"
  ELSE IF x_value = -1 /\ y_value = 0 THEN "left"
  ELSE IF x_value = -1 /\ y_value = 1 THEN "up-left"
  ELSE "centered"

\* hat_name of _process_hat_event(hat_id, x, y, joy_id)
HatName(hat_id, joy_id) ==
  IF joy_id # NoJoy
    THEN "HAT_" \o ToStr(hat_id) \o "_JOY" \o ToStr(joy_id[1])
    ELSE "HAT_" \o ToStr(hat_id)

\* hat_event = f"{hat_name}_{direction}"
HatEvent(hat_name, direction) == hat_name \o "_" \o direction

\* self.current_hat_positions.get(hat_name, None)
GetHat(positions, hat_name) ==
  IF hat_name \in DOMAIN positions THEN positions[hat_name] ELSE None

\* d[k] = v on a dict
DictSet(d, k, v) == [x \in DOMAIN d \cup {k} |-> IF x = k THEN v ELSE d[x]]

(***************************************************************************)
(* The mapping tables.                                                     *)
(***************************************************************************)
Item(k, n) == [key |-> k, presses |-> n]

\* main.default_config
default_config ==
  [k \in {"HAT_0_up", "HAT_0_down", "HAT_0_left", "HAT_0_right", "BUTTON_27"} |->
     CASE k = "HAT_0_up" -> [sequence |-> <<Item("v", 1), Item("x", 2)>>]
       [] k = "HAT_0_down" -> [sequence |-> <<Item("v", 1), Item("c", 2)>>]
       [] k = "HAT_0_left" ->
            [sequence |-> <<Item("v", 1), Item("z", 1), Item("x", 1)>>]
       [] k = "HAT_0_right" ->
            [sequence |-> <<Item("v", 1), Item("c", 1), Item("x", 1)>>]
       [] k = "BUTTON_27" ->
            [sequence |-> <<Item("n", 1), Item("WAIT", 1), Item("e", 2),
                            Item("KEY_SPACE", 1), Item("d", 1),
                            Item("KEY_SPACE", 1), Item("e", 2), Item("n", 1)>>]]

\* a table with the hooks of main.py (print_starting, print_end), as
\* EDJoystickHelper(config) takes it: keyboard triggers only
HookConfig ==
  [k \in {"a", "KEY_SPACE"} |->
     CASE k = "a" ->
            [sequence |-> <<Item("v", 1), Item("WAIT", 1), Item("x", 2)>>,
             preRun |-> "print_starting", afterRun |-> "print_end"]
       [] k = "KEY_SPACE" ->
            [sequence |-> <<Item("c", 1)>>, delay |-> 50]]

\* the value of an option of the INI file: the text parses to v, or parsing
\* it raises the exception e
Parsed(v) == [raises |-> None, value |-> v]
Raising(e) == [raises |-> e]

\* an INI file with device-qualified hat and button sections and keyboard
\* triggers
IniJoy ==
  [exists |-> TRUE,
   sections |->
     [s \in {"HAT_0_JOY0_up", "HAT_0_JOY0_centered", "BUTTON_1_JOY0",
             "BUTTON_1_JOY1", "KEY_SPACE", "a"} |->
        CASE s = "HAT_0_JOY0_up" ->
               [sequence |-> Parsed(<<Item("v", 1)>>),
                modifier |-> Parsed("BUTTON_1_JOY0")]
          [] s = "HAT_0_JOY0_centered" ->
               [sequence |-> Parsed(<<Item("WAIT", 1)>>)]
          [] s = "BUTTON_1_JOY0" ->
               [sequence |-> Parsed(<<Item("c", 1)>>),
                modifier |-> Parsed("KEY_SPACE")]
          [] s = "BUTTON_1_JOY1" ->
               [sequence |-> Parsed(<<Item("KEY_SPACE", 1)>>),
                modifier |-> Parsed("BUTTON_1_JOY0")]
          [] s = "KEY_SPACE" ->
               [sequence |-> Parsed(<<Item("x", 1)>>),
                modifier |-> Parsed("BUTTON_1_JOY1")]
          [] s = "a" ->
               [sequence |-> Parsed(<<Item("x", 1)>>),
                delay |-> Parsed(50)]]]

\* a file whose HAT_0_JOY0_up sequence is not a Python expression
IniBadSequence ==
  [exists |-> TRUE,
   sections |->
     [s \in {"HAT_0_JOY0_up"} |-> [sequence |-> Raising("SyntaxError")]]]

\* a file whose delay is not a number
IniBadDelay ==
  [exists |-> TRUE,
   sections |->
     [s \in {"HAT_0_JOY0_up"} |->
        [sequence |-> Parsed(<<Item("v", 1)>>),
         delay |-> Raising("ValueError")]]]

\* no file at the path
IniMissing == [exists |-> FALSE]

IniFiles == {IniJoy, IniBadSequence, IniBadDelay, IniMissing}

(***************************************************************************)
(* main.load_config_from_ini                                               *)
(***************************************************************************)
\* what the loader stores for one option: a sequence that raises
\* SyntaxError or NameError becomes the empty sequence, every other
\* exception (of eval, of float) leaves the loader
OptionValue(key, raw) ==
  IF key = "sequence" /\ raw.raises \in {"SyntaxError", "NameError"}
    THEN Parsed(<<>>)
    ELSE raw

\* the function references copied from default_config
FuncKeys(section) ==
  IF section \in DOMAIN default_config
    THEN {"preRun", "afterRun"} \cap DOMAIN default_config[section]
    ELSE {}

\* parsed_config[section]
ParsedSection(section, options) ==
  [k \in DOMAIN options \cup FuncKeys(section) |->
     IF k \in FuncKeys(section)
       THEN default_config[section][k]
       ELSE OptionValue(k, options[k]).value]

\* the outcome of load_config_from_ini(file_path) on the file
load_config_from_ini(file) ==
  IF ~file.exists
    THEN [outcome |-> "SystemExit"]
    ELSE IF \E s \in DOMAIN file.sections :
              \E k \in DOMAIN file.sections[s] :
                 OptionValue(k, file.sections[s][k]).raises # None
      THEN [outcome |-> "raise"]
      ELSE [outcome |-> "return",
            value |-> [s \in DOMAIN file.sections |->
                         ParsedSection(s, file.sections[s])]]

\* the config main() hands to EDJoystickHelper: the loaded file, or
\* default_config when there is no file or loading it raises
MainConfig(file) ==
  IF load_config_from_ini(file).outcome = "return"
    THEN load_config_from_ini(file).value
    ELSE default_config

(***************************************************************************)
(* The state.                                                              *)
(***************************************************************************)
VARIABLES
  joystick_count,         \* pygame.joystick.get_count()
  config,                 \* self.config
  config_file_path,       \* self.config_file_path
  running,                \* self.running
  pressed_buttons,        \* self.pressed_buttons
  current_hat_positions,  \* self.current_hat_positions
  pc,                     \* where the thread running start() is
  pending,                \* events left in the list pygame.event.get() returned
  event,                  \* the event the for loop is at
  config_key,             \* config_key of the running _process_button_press
  tested_config,          \* the table the membership test of line 117 read
  executors,              \* the bag of threads running _execute_sequence
  last_reload,            \* the source and the result of the last reload_config
  held,                   \* the <<joystick, button>> whose last processed event
                          \* was a JOYBUTTONDOWN
  tray,                   \* where the thread running EDJoystickTray.exit_app is
  grace_elapsed           \* the timeout of helper_thread.join(timeout=1.0)
                          \* has elapsed

vars ==
  <<joystick_count, config, config_file_path, running, pressed_buttons,
    current_hat_positions, pc, pending, event, config_key, tested_config,
    executors, last_reload, held, tray, grace_elapsed>>

NoEvent == [type |-> "none"]
NoTable == <<>>
NoReload == [result |-> "none"]
ConfigPath == "config.ini"

\* the events the devices and the keyboard can deliver
Events ==
  {[type |-> t, button |-> b, joy |-> j] :
     t \in {"JOYBUTTONDOWN", "JOYBUTTONUP"},
     b \in UNION {DeviceButtons(j) : j \in 0..(joystick_count - 1)},
     j \in 0..(joystick_count - 1)}
  \cup {[type |-> "JOYHATMOTION", hat |-> 0, value |-> v, joy |-> j] :
          v \in HatValues,
          j \in {i \in 0..(joystick_count - 1) :
                  NumHats(joystick_count, i) > 0}}
  \cup {[type |-> t, key |-> k] : t \in {"KEYDOWN", "KEYUP"}, k \in KeyNames}
  \cup {[type |-> "MOUSEMOTION"]}

\* the events that may end in a dispatch
Dispatching == {"JOYBUTTONDOWN", "JOYHATMOTION", "KEYDOWN"}

(***************************************************************************)
(* Executor threads.                                                       *)
(***************************************************************************)
\* the threads are anonymous: the state of each, as a bag
NoThreads == EmptyBag

\* one thread at a time: the others wait for it
Threads_Serial ==
  IF executors = EmptyBag THEN {}
  ELSE {CHOOSE e \in BagToSet(executors) : TRUE}

Threads == BagToSet(executors)

\* a thread can be made while fewer than capacity exist
Room(capacity) == BagCardinality(executors) < capacity

\* a thread can be made
CanSpawn == Room(MaxExecutors)

\* threading.Thread(target=self._execute_sequence,
\*                  args=(config_key, button_config)).start()
NewThread(name, button_config) ==
  [pc |-> "start", button_name |-> name, button_config |-> button_config,
   i |-> 0, n |-> 0, trace |-> <<>>, fault |-> None]

\* the bag with the thread e in the state f
Becomes(e, f) == (executors (-) SetToBag({e})) (+) SetToBag({f})

(***************************************************************************)
(* EDJoystickHelper.__init__                                               *)
(***************************************************************************)
\* current_hat_positions after the constructor: "HAT_<id>" of every hat of
\* every joystick is "centered"
InitHatPositions(count) ==
  [h \in {HatName(hat_id, NoJoy) :
            hat_id \in UNION {0..(NumHats(count, j) - 1) :
                                j \in 0..(count - 1)}} |->
     "centered"]

Init ==
  /\ joystick_count \in JoystickCounts
  /\ config \in {MainConfig(f) : f \in IniFiles}
  /\ config_file_path = None
  /\ running = FALSE
  /\ pressed_buttons = {}
  /\ current_hat_positions = InitHatPositions(joystick_count)
  /\ pc = "new"
  /\ pending = 0
  /\ event = NoEvent
  /\ config_key = None
  /\ tested_config = NoTable
  /\ executors = NoThreads
  /\ last_reload = NoReload
  /\ held = {}
  /\ tray = "idle"
  /\ grace_elapsed = FALSE

(***************************************************************************)
(* EDJoystickHelper.start: the event loop.                                 *)
(***************************************************************************)
LoopLocals == <<pending, event, config_key, tested_config>>
Tracker == <<pressed_buttons, current_hat_positions, held>>
\* the variables of EDJoystickTray.exit_app
Surface == <<tray, grace_elapsed>>
Fixed == <<joystick_count, config_file_path, Surface>>

\* main() and EDJoystickTray.start call set_config_file_path before start()
set_config_file_path ==
  /\ pc = "new"
  /\ config_file_path = None
  /\ config_file_path' = ConfigPath
  /\ UNCHANGED <<joystick_count, Surface, config, running, pc, LoopLocals,
                 Tracker, executors, last_reload>>

\* helper.start() is called, in tray mode on a thread of its own
launch ==
  /\ pc = "new"
  /\ config_file_path # None
  /\ pc' = "launched"
  /\ UNCHANGED <<Fixed, config, running, LoopLocals, Tracker, executors,
                 last_reload>>

\* a start() that gives up without a joystick
start_NeedsJoystick ==
  /\ pc = "launched"
  /\ joystick_count > 0
  /\ running' = TRUE
  /\ pc' = "while"
  /\ UNCHANGED <<Fixed, config, LoopLocals, Tracker, executors, last_reload>>

\* self.running = True
start ==
  /\ pc = "launched"
  /\ running' = TRUE
  /\ pc' = "while"
  /\ UNCHANGED <<Fixed, config, LoopLocals, Tracker, executors, last_reload>>

\* while self.running: ... pygame.event.get(); the loop is left (and
\* pygame.quit() runs) when running is false
loop_while ==
  /\ pc = "while"
  /\ IF running
       THEN /\ \E n \in 0..MaxBatch : pending' = n
            /\ pc' = "for"
       ELSE /\ pc' = "exited"
            /\ UNCHANGED pending
  /\ UNCHANGED <<Fixed, config, running, event, config_key, tested_config,
                 Tracker, executors, last_reload>>

\* for event in ...: the next event of the list, or time.sleep(0.01) at its
\* end.  An event that may dispatch is taken only while a thread can be made.
Poll(events, capacity) ==
  /\ pc = "for"
  /\ IF pending = 0
       THEN /\ pc' = "while"
            /\ UNCHANGED <<pending, event>>
       ELSE \E e \in events :
              /\ e.type \in Dispatching => Room(capacity)
              /\ event' = e
              /\ pending' = pending - 1
              /\ pc' = "body"
  /\ UNCHANGED <<Fixed, config, running, config_key, tested_config, Tracker,
                 executors, last_reload>>

loop_for == Poll(Events, MaxExecutors)

\* a release that leaves the name in the set
RemovePressed_Keeps(pressed, name) == pressed

\* self.pressed_buttons.add(name)
AddPressed(pressed, name) == pressed \cup {name}

\* if name in self.pressed_buttons: self.pressed_buttons.remove(name)
RemovePressed(pressed, name) == pressed \ {name}

\* event.type == pygame.JOYBUTTONDOWN
on_JOYBUTTONDOWN ==
  /\ pc = "body"
  /\ event.type = "JOYBUTTONDOWN"
  /\ pressed_buttons' =
       AddPressed(pressed_buttons, PressedName(event.button, event.joy))
  /\ held' = held \cup {<<event.joy, event.button>>}
  /\ config_key' = ConfigKey(ButtonName(event.button), Joy(event.joy))
  /\ pc' = "dispatch"
  /\ event' = NoEvent
  /\ UNCHANGED <<Fixed, config, running, pending, tested_config,
                 current_hat_positions, executors, last_reload>>

\* a button release that goes on to _process_button_press
on_JOYBUTTONUP_Dispatches ==
  /\ pc = "body"
  /\ event.type = "JOYBUTTONUP"
  /\ pressed_buttons' =
       RemovePressed(pressed_buttons, PressedName(event.button, event.joy))
  /\ held' = held \ {<<event.joy, event.button>>}
  /\ config_key' = ConfigKey(ButtonName(event.button), Joy(event.joy))
  /\ pc' = "dispatch"
  /\ event' = NoEvent
  /\ UNCHANGED <<Fixed, config, running, pending, tested_config,
                 current_hat_positions, executors, last_reload>>

\* event.type == pygame.JOYBUTTONUP
on_JOYBUTTONUP ==
  /\ pc = "body"
  /\ event.type = "JOYBUTTONUP"
  /\ pressed_buttons' =
       RemovePressed(pressed_buttons, PressedName(event.button, event.joy))
  /\ held' = held \ {<<event.joy, event.button>>}
  /\ pc' = "for"
  /\ event' = NoEvent
  /\ UNCHANGED <<Fixed, config, running, pending, config_key, tested_config,
                 current_hat_positions, executors, last_reload>>

\* a hat handler without the change test
HatChanged_Always(positions, hat_name, direction) == TRUE

\* if self.current_hat_positions.get(hat_name, None) != direction
HatChanged(positions, hat_name, direction) ==
  GetHat(positions, hat_name) # direction

\* event.type == pygame.JOYHATMOTION: _process_hat_event up to its call of
\* _process_button_press(hat_event)
on_JOYHATMOTION ==
  /\ pc = "body"
  /\ event.type = "JOYHATMOTION"
  /\ LET direction == Direction(event.value[1], event.value[2])
         hat_name == HatName(event.hat, Joy(event.joy))
     IN  IF HatChanged(current_hat_positions, hat_name, direction)
           THEN /\ current_hat_positions' =
                     DictSet(current_hat_positions, hat_name, direction)
                /\ config_key' = ConfigKey(HatEvent(hat_name, direction), NoJoy)
                /\ pc' = "dispatch"
           ELSE /\ pc' = "for"
                /\ UNCHANGED <<current_hat_positions, config_key>>
  /\ event' = NoEvent
  /\ UNCHANGED <<Fixed, config, running, pending, tested_config,
                 pressed_buttons, held, executors, last_reload>>

\* event.type == pygame.KEYDOWN
on_KEYDOWN ==
  /\ pc = "body"
  /\ event.type = "KEYDOWN"
  /\ config_key' = ConfigKey(KeyId(event.key), NoJoy)
  /\ pc' = "dispatch"
  /\ event' = NoEvent
  /\ UNCHANGED <<Fixed, config, running, pending, tested_config, Tracker,
                 executors, last_reload>>

\* event.type == pygame.KEYUP
on_KEYUP ==
  /\ pc = "body"
  /\ event.type = "KEYUP"
  /\ pressed_buttons' = RemovePressed(pressed_buttons, KeyId(event.key))
  /\ pc' = "for"
  /\ event' = NoEvent
  /\ UNCHANGED <<Fixed, config, running, pending, config_key, tested_config,
                 current_hat_positions, held, executors, last_reload>>

\* an event of any other type matches no branch
on_other ==
  /\ pc = "body"
  /\ event.type = "MOUSEMOTION"
  /\ pc' = "for"
  /\ event' = NoEvent
  /\ UNCHANGED <<Fixed, config, running, pending, config_key, tested_config,
                 Tracker, executors, last_reload>>

\* _process_button_press, line 117: if config_key in self.config
process_button_press ==
  /\ pc = "dispatch"
  /\ IF config_key \in DOMAIN config
       THEN /\ pc' = "fetch"
            /\ tested_config' = config
            /\ UNCHANGED config_key
       ELSE /\ pc' = "for"
            /\ config_key' = None
            /\ UNCHANGED tested_config
  /\ UNCHANGED <<Fixed, config, running, pending, event, Tracker, executors,
                 last_reload>>

\* the table line 118 reads: self.config, read a second time
FetchTable == config

\* a dispatch without the modifier check
Gate_Unchecked(button_config, pressed) == TRUE

\* lines 121-124: the action is dispatched unless it names a modifier that
\* is not in pressed_buttons
Gate(button_config, pressed) ==
  ~("modifier" \in DOMAIN button_config /\ button_config.modifier \notin pressed)

\* a dispatch that drops the trigger while a thread of the same name runs
dispatch_Busy ==
  /\ pc = "fetch"
  /\ IF config_key \notin DOMAIN FetchTable
       THEN /\ pc' = "crashed"
            /\ UNCHANGED executors
       ELSE /\ pc' = "for"
            /\ LET button_config == FetchTable[config_key]
               IN  IF /\ Gate(button_config, pressed_buttons)
                      /\ ~\E e \in Threads :
                            /\ e.button_name = config_key
                            /\ e.pc \notin {"done", "dead"}
                     THEN executors' =
                            executors
                              (+) SetToBag({NewThread(config_key, button_config)})
                     ELSE UNCHANGED executors
  /\ config_key' = None
  /\ tested_config' = NoTable
  /\ UNCHANGED <<Fixed, config, running, pending, event, Tracker, last_reload>>

\* _process_button_press, lines 118-129: button_config = self.config[config_key]
\* (a KeyError leaves start() through its finally), the modifier check and
\* the start of the thread
dispatch ==
  /\ pc = "fetch"
  /\ IF config_key \notin DOMAIN FetchTable
       THEN /\ pc' = "crashed"
            /\ UNCHANGED executors
       ELSE /\ pc' = "for"
            /\ LET button_config == FetchTable[config_key]
               IN  IF Gate(button_config, pressed_buttons)
                     THEN executors' =
                            executors
                              (+) SetToBag({NewThread(config_key, button_config)})
                     ELSE UNCHANGED executors
  /\ config_key' = None
  /\ tested_config' = NoTable
  /\ UNCHANGED <<Fixed, config, running, pending, event, Tracker, last_reload>>

\* Ctrl-C while start() runs: except KeyboardInterrupt, then the finally
keyboard_interrupt ==
  /\ pc \in {"while", "for", "body", "dispatch", "fetch"}
  /\ pc' = "interrupted"
  /\ pending' = 0
  /\ event' = NoEvent
  /\ config_key' = None
  /\ tested_config' = NoTable
  /\ UNCHANGED <<Fixed, config, running, Tracker, executors, last_reload>>

\* EDJoystickHelper.stop
stop ==
  /\ running' = FALSE
  /\ UNCHANGED <<Fixed, config, pc, LoopLocals, Tracker, executors,
                 last_reload>>

(***************************************************************************)
(* EDJoystickHelper.reload_config                                          *)
(***************************************************************************)
\* a reload that falls back to default_config when the loader fails
ReloadedConfig_Defaulted(old, file) ==
  IF load_config_from_ini(file).outcome = "return"
    THEN load_config_from_ini(file).value
    ELSE default_config

\* self.config after reload_config has read the file
ReloadedConfig(old, file) ==
  IF load_config_from_ini(file).outcome = "return"
    THEN load_config_from_ini(file).value
    ELSE old

\* what reload_config gives its caller: True, False, or the SystemExit of
\* the loader's sys.exit(1), which except Exception does not catch
ReloadResult(file) ==
  CASE load_config_from_ini(file).outcome = "return" -> "True"
    [] load_config_from_ini(file).outcome = "raise" -> "False"
    [] load_config_from_ini(file).outcome = "SystemExit" -> "SystemExit"

\* a reload that also forgets what is pressed
reload_config_Resets ==
  /\ config_file_path # None
  /\ \E file \in IniFiles :
       /\ config' = ReloadedConfig(config, file)
       /\ last_reload' = [result |-> ReloadResult(file), file |-> file]
  /\ pressed_buttons' = {}
  /\ UNCHANGED <<Fixed, running, pc, LoopLocals, current_hat_positions, held,
                 executors>>

reload_config ==
  /\ IF config_file_path = None
       THEN /\ last_reload' = [result |-> "False"]
            /\ UNCHANGED config
       ELSE \E file \in IniFiles :
              /\ config' = ReloadedConfig(config, file)
              /\ last_reload' = [result |-> ReloadResult(file), file |-> file]
  /\ UNCHANGED <<Fixed, running, pc, LoopLocals, Tracker, executors>>

(***************************************************************************)
(* EDJoystickHelper._execute_sequence, one thread per dispatch.            *)
(***************************************************************************)
\* the default of button_config.get("delay", 0.1), in milliseconds
DefaultDelay == 100

\* the names that are attributes of pynput's Key
KeyAttrs == {"KEY_SPACE", "KEY_ENTER", "KEY_ESC"}

\* _map_key: a Key member for KEY_<attribute>, else the name itself
MapKey(key_name) ==
  CASE key_name = "KEY_SPACE" -> "Key.space"
    [] key_name = "KEY_ENTER" -> "Key.enter"
    [] key_name = "KEY_ESC" -> "Key.esc"
    [] OTHER -> key_name

\* the values of a table that are callable
Callables == {"print_starting", "print_end"}

\* an executor that finds no hook in any table
HasHook_Never(button_config, func_key) == FALSE

\* "preRun" in button_config and callable(button_config["preRun"])
HasHook(button_config, func_key) ==
  /\ func_key \in DOMAIN button_config
  /\ button_config[func_key] \in Callables

\* a thread that reads its action from self.config at every step
ExecConfig_Live(e) ==
  IF e.button_name \in DOMAIN config
    THEN config[e.button_name]
    ELSE e.button_config

\* the action definition the thread e reads: the button_config it was given
ExecConfig(e) == e.button_config

\* delay = button_config.get("delay", 0.1)
Delay(button_config) ==
  IF "delay" \in DOMAIN button_config THEN button_config.delay
  ELSE DefaultDelay

Call(name, arg) == [call |-> name, arg |-> arg]
Sleep(ms) == [call |-> "sleep", ms |-> ms]

\* where the for loop over the sequence is next, from item i on: at a WAIT,
\* at the first press of an item, or past the last item
RECURSIVE Seek(_, _)
Seek(sequence, i) ==
  IF i > Len(sequence) THEN [pc |-> "afterRun", i |-> i]
  ELSE IF sequence[i].key = "WAIT" THEN [pc |-> "wait", i |-> i]
  ELSE IF sequence[i].presses > 0 THEN [pc |-> "press", i |-> i]
  ELSE Seek(sequence, i + 1)

LoopState ==
  <<Fixed, config, running, pc, LoopLocals, Tracker, last_reload>>

\* an exception raised by the call what leaves _execute_sequence, which has
\* no try: the thread ends there
Raised(e, what) == [e EXCEPT !.pc = "dead", !.fault = what]

\* a preRun hook whose exception is swallowed: the sequence runs
PreRunFaulted_Continues(e, next) ==
  [e EXCEPT !.pc = next.pc, !.i = next.i, !.n = 0, !.fault = "preRun",
            !.trace = Append(@, Call("preRun", e.button_name))]

\* button_config["preRun"](button_name) raises
PreRunFaulted(e, next) ==
  Raised([e EXCEPT !.trace = Append(@, Call("preRun", e.button_name))],
         "preRun")

\* a key that is pressed once whatever its presses
MorePresses_Never(n, presses) == FALSE

\* for _ in range(presses): after press n (from 0) another one follows
MorePresses(n, presses) == n + 1 < presses

\* the thread starts: the preRun hook, which may raise and end the thread
exec_start(e) ==
  /\ e.pc = "start"
  /\ LET next == Seek(ExecConfig(e).sequence, 1)
     IN  IF HasHook(ExecConfig(e), "preRun")
           THEN \E ok \in BOOLEAN :
                  executors' =
                    Becomes(e,
                      IF ok
                        THEN [e EXCEPT
                                !.pc = next.pc, !.i = next.i, !.n = 0,
                                !.trace = Append(@, Call("preRun", e.button_name))]
                        ELSE PreRunFaulted(e, next))
           ELSE executors' =
                  Becomes(e, [e EXCEPT !.pc = next.pc, !.i = next.i, !.n = 0])
  /\ UNCHANGED LoopState

\* a time.sleep that never returns
exec_wait_Forever(e) ==
  /\ e.pc = "wait"
  /\ UNCHANGED vars

\* key == "WAIT": time.sleep(presses)
exec_wait(e) ==
  /\ e.pc = "wait"
  /\ LET sequence == ExecConfig(e).sequence
         next == Seek(sequence, e.i + 1)
     IN  executors' =
           Becomes(e,
             [e EXCEPT !.pc = next.pc, !.i = next.i, !.n = 0,
                       !.trace = Append(@, Sleep(sequence[e.i].presses * 1000))])
  /\ UNCHANGED LoopState

\* self.keyboard.press(key_obj), which may raise and end the thread;
\* time.sleep(delay)
exec_press(e) ==
  /\ e.pc = "press"
  /\ LET item == ExecConfig(e).sequence[e.i]
     IN  \E ok \in BOOLEAN :
           executors' =
             Becomes(e,
               IF ok
                 THEN [e EXCEPT
                         !.pc = "release",
                         !.trace = @ \o <<Call("press", MapKey(item.key)),
                                          Sleep(Delay(ExecConfig(e)))>>]
                 ELSE Raised(e, "press"))
  /\ UNCHANGED LoopState

\* a release step that never reaches the keyboard
exec_release_Silent(e) ==
  /\ e.pc = "release"
  /\ LET sequence == ExecConfig(e).sequence
         item == sequence[e.i]
         next == IF MorePresses(e.n, item.presses)
                   THEN [pc |-> "press", i |-> e.i, n |-> e.n + 1]
                   ELSE [pc |-> Seek(sequence, e.i + 1).pc,
                         i |-> Seek(sequence, e.i + 1).i, n |-> 0]
     IN  executors' =
           Becomes(e,
             [e EXCEPT !.pc = next.pc, !.i = next.i, !.n = next.n,
                       !.trace = @ \o <<Sleep(Delay(ExecConfig(e))),
                                        Sleep(Delay(ExecConfig(e)))>>])
  /\ UNCHANGED LoopState

\* self.keyboard.release(key_obj), which may raise and end the thread;
\* time.sleep(delay); then the next press of the item or the next item
exec_release(e) ==
  /\ e.pc = "release"
  /\ LET sequence == ExecConfig(e).sequence
         item == sequence[e.i]
         next == IF MorePresses(e.n, item.presses)
                   THEN [pc |-> "press", i |-> e.i, n |-> e.n + 1]
                   ELSE [pc |-> Seek(sequence, e.i + 1).pc,
                         i |-> Seek(sequence, e.i + 1).i, n |-> 0]
     IN  \E ok \in BOOLEAN :
           executors' =
             Becomes(e,
               IF ok
                 THEN [e EXCEPT
                         !.pc = next.pc, !.i = next.i, !.n = next.n,
                         !.trace = @ \o <<Call("release", MapKey(item.key)),
                                          Sleep(Delay(ExecConfig(e)))>>]
                 ELSE Raised(e, "release"))
  /\ UNCHANGED LoopState

\* the afterRun hook, which may raise, and the end of the thread's function
exec_afterRun(e) ==
  /\ e.pc = "afterRun"
  /\ IF HasHook(ExecConfig(e), "afterRun")
       THEN \E ok \in BOOLEAN :
              executors' =
                Becomes(e,
                  IF ok
                    THEN [e EXCEPT
                            !.pc = "done",
                            !.trace = Append(@, Call("afterRun", e.button_name))]
                    ELSE Raised([e EXCEPT
                                   !.trace =
                                     Append(@, Call("afterRun", e.button_name))],
                                "afterRun"))
       ELSE executors' = Becomes(e, [e EXCEPT !.pc = "done"])
  /\ UNCHANGED LoopState

\* the finished thread is gone
exec_exit(e) ==
  /\ e.pc \in {"done", "dead"}
  /\ executors' = executors (-) SetToBag({e})
  /\ UNCHANGED LoopState

execute_sequence ==
  \E e \in Threads :
    \/ exec_start(e)
    \/ exec_wait(e)
    \/ exec_press(e)
    \/ exec_release(e)
    \/ exec_afterRun(e)
    \/ exec_exit(e)

(***************************************************************************)
(* The system.                                                             *)
(***************************************************************************)
Next ==
  \/ set_config_file_path
  \/ launch
  \/ start
  \/ loop_while
  \/ loop_for
  \/ on_JOYBUTTONDOWN
  \/ on_JOYBUTTONUP
  \/ on_JOYHATMOTION
  \/ on_KEYDOWN
  \/ on_KEYUP
  \/ on_other
  \/ process_button_press
  \/ dispatch
  \/ keyboard_interrupt
  \/ stop
  \/ reload_config
  \/ execute_sequence

Spec == Init /\ [][Next]_vars

(***************************************************************************)
(* The keyboard-only engine with hooks: no joystick is attached, the table  *)
(* is HookConfig and nothing reloads it.                                   *)
(***************************************************************************)
ExecInit ==
  /\ joystick_count = 0
  /\ config = HookConfig
  /\ config_file_path = None
  /\ running = FALSE
  /\ pressed_buttons = {}
  /\ current_hat_positions = InitHatPositions(0)
  /\ pc = "new"
  /\ pending = 0
  /\ event = NoEvent
  /\ config_key = None
  /\ tested_config = NoTable
  /\ executors = NoThreads
  /\ last_reload = NoReload
  /\ held = {}
  /\ tray = "idle"
  /\ grace_elapsed = FALSE

key_loop_for == Poll(Events, MaxPair)

\* a step of the thread that runs start()
LoopStep ==
  \/ loop_while
  \/ key_loop_for
  \/ on_KEYDOWN
  \/ on_KEYUP
  \/ on_other
  \/ process_button_press
  \/ dispatch

ExecNext ==
  \/ set_config_file_path
  \/ launch
  \/ start
  \/ loop_while
  \/ key_loop_for
  \/ on_KEYDOWN
  \/ on_KEYUP
  \/ on_other
  \/ process_button_press
  \/ dispatch
  \/ stop
  \/ execute_sequence

ExecSpec == ExecInit /\ [][ExecNext]_vars

(***************************************************************************)
(* Tray mode: EDJoystickTray runs start() on helper_thread, and the menu   *)
(* of the icon calls reload_config and exit_app on the thread of the icon. *)
(***************************************************************************)
\* the thread of start() has ended
HelperEnded == pc \in {"exited", "interrupted", "crashed"}

\* os._exit(0) has not run
Alive == tray # "exited"

\* exit_app, lines 126-129: self.helper.stop() and icon.stop(); the menu
\* exists once EDJoystickTray.start has started helper_thread
exit_app_stop ==
  /\ tray = "idle"
  /\ pc # "new"
  /\ running' = FALSE
  /\ tray' = "join"
  /\ UNCHANGED <<joystick_count, config_file_path, grace_elapsed, config, pc,
                 LoopLocals, Tracker, executors, last_reload>>

\* exit_app, line 131: self.helper_thread.join(timeout=1.0) returns when the
\* thread of start() has ended, or else when the timeout has elapsed
exit_app_join ==
  /\ tray = "join"
  /\ grace_elapsed' = ~HelperEnded
  /\ tray' = "joined"
  /\ UNCHANGED <<joystick_count, config_file_path, config, running, pc,
                 LoopLocals, Tracker, executors, last_reload>>

\* exit_app, line 133: os._exit(0) ends the process and every thread in it
exit_app_os_exit ==
  /\ tray = "joined"
  /\ tray' = "exited"
  /\ UNCHANGED <<joystick_count, config_file_path, grace_elapsed, config,
                 running, pc, LoopLocals, Tracker, executors, last_reload>>

\* main() in tray mode, without joystick: the table of the user's file
TrayInit ==
  /\ joystick_count = 0
  /\ config = MainConfig(IniJoy)
  /\ config_file_path = None
  /\ running = FALSE
  /\ pressed_buttons = {}
  /\ current_hat_positions = InitHatPositions(0)
  /\ pc = "new"
  /\ pending = 0
  /\ event = NoEvent
  /\ config_key = None
  /\ tested_config = NoTable
  /\ executors = NoThreads
  /\ last_reload = NoReload
  /\ held = {}
  /\ tray = "idle"
  /\ grace_elapsed = FALSE

\* the steps of the threads of the process, while it exists
TrayNext ==
  \/ Alive /\ set_config_file_path
  \/ Alive /\ launch
  \/ Alive /\ start
  \/ Alive /\ loop_while
  \/ Alive /\ loop_for
  \/ Alive /\ on_KEYDOWN
  \/ Alive /\ on_KEYUP
  \/ Alive /\ on_other
  \/ Alive /\ process_button_press
  \/ Alive /\ dispatch
  \/ Alive /\ tray = "idle" /\ reload_config
  \/ Alive /\ execute_sequence
  \/ exit_app_stop
  \/ exit_app_join
  \/ exit_app_os_exit

TraySpec == TrayInit /\ [][TrayNext]_vars

(***************************************************************************)
(* One joystick whose hat reports every pair of axis values of             *)
(* -MaxAxis..MaxAxis.                                                      *)
(***************************************************************************)
AxisValues == (0 - MaxAxis)..MaxAxis

\* the JOYHATMOTION events of hat 0 of joystick 0
HatSamples ==
  {[type |-> "JOYHATMOTION", hat |-> 0, value |-> <<x, y>>, joy |-> 0] :
     x \in AxisValues, y \in AxisValues}

HatInit ==
  /\ joystick_count = 1
  /\ config = MainConfig(IniJoy)
  /\ config_file_path = None
  /\ running = FALSE
  /\ pressed_buttons = {}
  /\ current_hat_positions = InitHatPositions(1)
  /\ pc = "new"
  /\ pending = 0
  /\ event = NoEvent
  /\ config_key = None
  /\ tested_config = NoTable
  /\ executors = NoThreads
  /\ last_reload = NoReload
  /\ held = {}
  /\ tray = "idle"
  /\ grace_elapsed = FALSE

hat_loop_for == Poll(HatSamples, MaxExecutors)

HatNext ==
  \/ set_config_file_path
  \/ launch
  \/ start
  \/ loop_while
  \/ hat_loop_for
  \/ on_JOYHATMOTION
  \/ process_button_press
  \/ dispatch
  \/ stop
  \/ execute_sequence

HatSpec == HatInit /\ [][HatNext]_vars

(***************************************************************************)
(* Console mode with the keyboard only, every call of every thread         *)
(* returning: the threads are not daemon threads, so they run on after     *)
(* start() has returned, and a finished thread stays in the bag, so that   *)
(* MaxPair bounds the threads ever made.  Every thread that can take a     *)
(* step is scheduled again and again.                                      *)
(***************************************************************************)
\* no thread has met a fault
NoFault == \A e \in Threads : e.fault = None

\* a step of a thread in which no call raises
live_execute_sequence ==
  \E e \in Threads :
    /\ \/ exec_start(e)
       \/ exec_wait(e)
       \/ exec_press(e)
       \/ exec_release(e)
       \/ exec_afterRun(e)
    /\ NoFault'

LiveNext ==
  \/ set_config_file_path
  \/ launch
  \/ start
  \/ loop_while
  \/ key_loop_for
  \/ on_KEYDOWN
  \/ on_KEYUP
  \/ on_other
  \/ process_button_press
  \/ dispatch
  \/ keyboard_interrupt
  \/ stop
  \/ reload_config
  \/ live_execute_sequence

LiveSpec == ExecInit /\ [][LiveNext]_vars /\ WF_vars(live_execute_sequence)

(***************************************************************************)
(* Properties.                                                             *)
(***************************************************************************)
\* the step of the event loop that handles the event it is at
HandlesEvent(type) ==
  /\ pc = "body"
  /\ event.type = type
  /\ pc' \in {"for", "dispatch"}

\* this step makes a thread for the action button_config of name
Spawns(name, button_config) ==
  executors' = executors (+) SetToBag({NewThread(name, button_config)})

\* C1: a dispatch lookup that runs concurrently with reload_config reads one
\* table: the table line 118 fetches the action from is the table whose
\* keys line 117 tested.
C1_LookupReadsOneTable == pc = "fetch" => FetchTable = tested_config

\* C2: the event loop leaves its loop only after a stop request (stop(), seen
\* by the while test, or a keyboard interrupt), never through a fault raised
\* while it processes an event.
C2_LoopLeftOnlyOnStop ==
  pc \in {"exited", "interrupted", "crashed"} =>
    \/ pc = "exited" /\ ~running
    \/ pc = "interrupted"

\* C3: when _process_button_press has fetched the action of the trigger, it
\* starts a thread for it if and only if the action has no modifier or its
\* modifier is in pressed_buttons at that moment.
C3_DispatchIffModifierHeld ==
  [][(pc = "fetch" /\ pc' = "for") =>
       LET button_config == config[config_key]
       IN  /\ Spawns(config_key, button_config)
                 <=> \/ "modifier" \notin DOMAIN button_config
                     \/ button_config.modifier \in pressed_buttons
           /\ ~Spawns(config_key, button_config) => executors' = executors]_vars

\* a thread runs an action whose modifier was held when its trigger fired
C3_Witness ==
  \E e \in Threads :
    /\ e.pc = "start"
    /\ "modifier" \in DOMAIN e.button_config
    /\ e.button_config.modifier \in pressed_buttons

\* C4: processing a keyboard key-down adds the key's id to pressed_buttons
\* before the dispatch is attempted.
C4_KeyDownIsPressed ==
  [][HandlesEvent("KEYDOWN") => KeyId(event.key) \in pressed_buttons']_vars

\* C5: pressed_buttons holds the device-qualified name of a button if and
\* only if the last event processed for that button of that device was a
\* JOYBUTTONDOWN.
C5_PressedIffLastDown ==
  \A j \in 0..(joystick_count - 1) :
    \A b \in DeviceButtons(j) :
      PressedName(b, j) \in pressed_buttons <=> <<j, b>> \in held

\* a button is down, another one is not
C5_Witness ==
  /\ <<0, 1>> \in held
  /\ <<1, 1>> \notin held
  /\ joystick_count = 2
  /\ pc = "for"

\* C6: a hat sample updates the stored direction and attempts the dispatch of
\* the hat-direction id exactly when its direction differs from the stored
\* one; a repeated direction changes nothing and attempts no dispatch.
C6_HatPropagatesOnChange ==
  [][HandlesEvent("JOYHATMOTION") =>
       LET direction == Direction(event.value[1], event.value[2])
           hat_name == HatName(event.hat, Joy(event.joy))
       IN  IF GetHat(current_hat_positions, hat_name) # direction
             THEN /\ GetHat(current_hat_positions', hat_name) = direction
                  /\ pc' = "dispatch"
                  /\ config_key' = HatEvent(hat_name, direction)
             ELSE /\ current_hat_positions' = current_hat_positions
                  /\ pc' = "for"
                  /\ config_key' = config_key]_vars

\* the hat went from centered to up and the dispatch of up is attempted
C6_Witness ==
  /\ pc = "dispatch"
  /\ config_key = "HAT_0_JOY0_up"
  /\ GetHat(current_hat_positions, "HAT_0_JOY0") = "up"

\* C7: every hat is stored as centered at startup, so a centered sample that
\* arrives while the stored directions are those of startup does not
\* propagate.
C7_FirstCenteredSampleIgnored ==
  [][(/\ HandlesEvent("JOYHATMOTION")
      /\ Direction(event.value[1], event.value[2]) = "centered"
      /\ current_hat_positions = InitHatPositions(joystick_count))
       => pc' = "for" /\ current_hat_positions' = current_hat_positions]_vars

\* C8: with one device and HAT_0_up in the table, the sample up that follows
\* a centered sample of hat 0 dispatches the action of HAT_0_up.
C8_HatUpDispatchesHat0Up ==
  [][(/\ joystick_count = 1
      /\ "HAT_0_up" \in DOMAIN config
      /\ HandlesEvent("JOYHATMOTION")
      /\ event.hat = 0
      /\ Direction(event.value[1], event.value[2]) = "up"
      /\ GetHat(current_hat_positions, HatName(0, Joy(event.joy))) = "centered")
       => pc' = "dispatch" /\ config_key' = "HAT_0_up"]_vars

\* the calls _execute_sequence makes for n presses of a key
RECURSIVE PressCalls(_, _, _)
PressCalls(key_obj, delay, n) ==
  IF n <= 0 THEN <<>>
  ELSE <<Call("press", key_obj), Sleep(delay),
         Call("release", key_obj), Sleep(delay)>>
       \o PressCalls(key_obj, delay, n - 1)

\* the calls for the items i.. of a sequence
RECURSIVE ItemCalls(_, _, _)
ItemCalls(sequence, delay, i) ==
  IF i > Len(sequence) THEN <<>>
  ELSE (IF sequence[i].key = "WAIT"
          THEN <<Sleep(sequence[i].presses * 1000)>>
          ELSE PressCalls(MapKey(sequence[i].key), delay, sequence[i].presses))
       \o ItemCalls(sequence, delay, i + 1)

\* every call a run of the action makes, hooks included
ActionCalls(name, button_config) ==
  (IF HasHook(button_config, "preRun") THEN <<Call("preRun", name)>> ELSE <<>>)
  \o ItemCalls(button_config.sequence, Delay(button_config), 1)
  \o (IF HasHook(button_config, "afterRun")
        THEN <<Call("afterRun", name)>> ELSE <<>>)

IsPrefix(s, t) == Len(s) <= Len(t) /\ SubSeq(t, 1, Len(s)) = s

\* C9: every call a thread makes (steps, delay, hooks) is the call of the
\* action definition it was given when it was started, whatever reload_config
\* has done to self.config since; and a thread is started with the action
\* self.config holds when its trigger is dispatched.
C9_ExecutorRunsItsSnapshot ==
  /\ [](\A e \in Threads :
          /\ IsPrefix(e.trace, ActionCalls(e.button_name, e.button_config))
          /\ e.pc = "done" =>
               e.trace = ActionCalls(e.button_name, e.button_config))
  /\ [][BagCardinality(executors') > BagCardinality(executors) =>
          Spawns(config_key, config'[config_key])]_vars

\* a thread is past its press while self.config holds another sequence for
\* its name
C9_Witness ==
  \E e \in Threads :
    /\ e.pc = "release"
    /\ e.trace # <<>>
    /\ last_reload.result = "True"
    /\ e.button_name \in DOMAIN config
    /\ config[e.button_name].sequence # e.button_config.sequence

\* the file cannot be read as a table: it is missing, or the text of one of
\* its options does not parse
Malformed(file) ==
  \/ ~file.exists
  \/ \E s \in DOMAIN file.sections :
       \E k \in DOMAIN file.sections[s] : file.sections[s][k].raises # None

\* the loader does not return: the file is missing or an option raises
\* something else than the SyntaxError or NameError of a sequence
LoaderFails(file) ==
  \/ ~file.exists
  \/ \E s \in DOMAIN file.sections :
       \E k \in DOMAIN file.sections[s] :
         /\ file.sections[s][k].raises # None
         /\ ~(k = "sequence"
              /\ file.sections[s][k].raises \in {"SyntaxError", "NameError"})

\* a step that is a call of reload_config which read the file
Reloads(file) ==
  /\ last_reload' # last_reload
  /\ "file" \in DOMAIN last_reload'
  /\ last_reload'.file = file

\* C10 as claimed: a reload from a malformed or unavailable source fails and
\* leaves self.config as it was.
C10_MalformedSourceKeepsTable ==
  [][\A file \in IniFiles :
       (Reloads(file) /\ Malformed(file)) =>
         last_reload'.result # "True" /\ config' = config]_vars

\* C10 as amended: a reload whose loader does not return (missing file, an
\* option that raises) does not succeed and leaves self.config as it was; a
\* sequence that raises SyntaxError or NameError does not fail the reload:
\* the table of the file becomes self.config with that sequence empty.
C10_FailedReloadKeepsTable ==
  [][\A file \in IniFiles :
       Reloads(file) =>
         IF LoaderFails(file)
           THEN last_reload'.result # "True" /\ config' = config
           ELSE /\ last_reload'.result = "True"
                /\ DOMAIN config' = DOMAIN file.sections
                /\ \A s \in DOMAIN file.sections :
                     config'[s].sequence =
                       IF file.sections[s].sequence.raises = None
                         THEN file.sections[s].sequence.value
                         ELSE <<>>]_vars

\* a reload has failed on a delay that is no number, with a table of the
\* user's file active
C10_Witness ==
  /\ last_reload = [result |-> "False", file |-> IniBadDelay]
  /\ config # default_config
  /\ pc = "for"

\* C11: every call of reload_config ends by returning True or False to its
\* caller: nothing is raised out of it.
C11_ReloadReturnsResult == last_reload.result \in {"none", "True", "False"}

\* the calls of a trace that are made on the output sink
SinkCalls(trace) == SelectSeq(trace, LAMBDA c : c.call \in {"press", "release"})

\* n times press(key), release(key)
RECURSIVE Repeated(_, _)
Repeated(key_obj, n) ==
  IF n <= 0 THEN <<>>
  ELSE <<Call("press", key_obj), Call("release", key_obj)>>
       \o Repeated(key_obj, n - 1)

\* the sink calls of the steps i.. in configured order: nothing for a wait
RECURSIVE ExpectedSink(_, _)
ExpectedSink(sequence, i) ==
  IF i > Len(sequence) THEN <<>>
  ELSE (IF sequence[i].key = "WAIT" THEN <<>>
        ELSE Repeated(MapKey(sequence[i].key), sequence[i].presses))
       \o ExpectedSink(sequence, i + 1)

\* C12: the sink calls of a thread that runs without fault are, step by step
\* in configured order, nothing for a wait and presses times press(key),
\* release(key) for a key: a prefix of them while it runs, all of them when
\* it is done.
C12_SinkCallsFollowSequence ==
  \A e \in Threads :
    e.fault = None =>
      /\ IsPrefix(SinkCalls(e.trace), ExpectedSink(e.button_config.sequence, 1))
      /\ e.pc = "done" =>
           SinkCalls(e.trace) = ExpectedSink(e.button_config.sequence, 1)

\* the action [v x1, wait, x x2] has run to its end: press(v), release(v),
\* press(x), release(x), press(x), release(x)
C12_Witness ==
  \E e \in Threads :
    /\ e.pc = "done"
    /\ e.button_name = "a"
    /\ SinkCalls(e.trace) =
         <<Call("press", "v"), Call("release", "v"),
           Call("press", "x"), Call("release", "x"),
           Call("press", "x"), Call("release", "x")>>

\* C13: a press or release that fails does not end its thread: the thread
\* goes on with its next calls.
C13_SinkFaultDoesNotEndExecutor ==
  \A e \in Threads : e.fault \in {"press", "release"} => e.pc # "dead"

\* this step is a step of one thread, which faults in the hook what
HookFaults(what) ==
  \E d \in Threads :
    \E e \in BagToSet(executors') :
      /\ e.fault = what
      /\ d.fault = None
      /\ executors' = Becomes(d, e)
      /\ executors' # executors

\* C14: a thread whose preRun hook faults has made no sink call and does
\* not call its afterRun hook; a thread whose afterRun hook faults has made
\* every sink call of its sequence; the step in which a hook faults changes
\* no other thread and nothing the event loop reads.
C14_HookFaultsStayLocal ==
  /\ [](\A e \in Threads :
          /\ e.fault = "preRun" =>
               e.pc = "dead" /\ e.trace = <<Call("preRun", e.button_name)>>
          /\ e.fault = "afterRun" =>
               SinkCalls(e.trace) = ExpectedSink(e.button_config.sequence, 1))
  /\ [][HookFaults("preRun") \/ HookFaults("afterRun") =>
          UNCHANGED LoopState]_vars

\* a thread has died in its preRun hook while another one is between a
\* press and its release and the loop handles an event
C14_Witness ==
  \E e, d \in Threads :
    /\ e.fault = "preRun"
    /\ d.pc = "release"
    /\ pc = "body"

\* C15: whatever the threads are doing (a delay after a press, a wait
\* step), the event loop can take its next step and every thread can take
\* its own next step.
C15_NobodyWaitsForADelay ==
  /\ pc \in {"while", "for", "body", "dispatch", "fetch"} => ENABLED LoopStep
  /\ \A e \in BagToSet(executors) :
       ENABLED (execute_sequence
                  /\ CopiesIn(e, executors') < CopiesIn(e, executors))

\* one thread is in a wait step, another in the delay after a press, and
\* the loop is handling an event
C15_Witness ==
  /\ pc = "body"
  /\ \E e, d \in Threads : e.pc = "wait" /\ d.pc = "release"

\* C16: once stop() has been called on a launched helper, the while test
\* that follows leaves the loop: the loop takes no further batch of events.
C16_StopEndsLoop ==
  [][(tray # "idle" /\ pc = "while" /\ pc' # pc) => pc' = "exited"]_vars

\* C17: when os._exit(0) ends the process while a thread runs a sequence,
\* the timeout of the join has elapsed.
C17_NoKillBeforeGrace ==
  (tray = "exited" /\ \E e \in Threads : e.pc \notin {"done", "dead"})
    => grace_elapsed

\* the canonical id of button b of device j, as the spec writes it
DeviceId(b, j) == "BUTTON_" \o ToStr(b) \o "_JOY" \o ToStr(j)

\* C18: the same button index on two devices gives two ids; a button-down
\* on device j looks up the id of device j only, and a modifier that names
\* button b of device j is satisfied exactly while that button of that
\* device is held, whatever is held on the other devices.
C18_DevicesAreIndependent ==
  /\ [](\A j, k \in 0..(joystick_count - 1) :
          \A b \in DeviceButtons(j) \cap DeviceButtons(k) :
            j # k => DeviceId(b, j) # DeviceId(b, k))
  /\ [][HandlesEvent("JOYBUTTONDOWN") =>
          /\ pc' = "dispatch"
          /\ config_key' = DeviceId(event.button, event.joy)]_vars
  /\ [][(pc = "fetch" /\ pc' = "for") =>
          \A j \in 0..(joystick_count - 1) :
            \A b \in DeviceButtons(j) :
              ("modifier" \in DOMAIN config[config_key]
                 /\ config[config_key].modifier = DeviceId(b, j))
                => (Spawns(config_key, config[config_key])
                      <=> <<j, b>> \in held)]_vars

\* with button 1 of both devices down, the press on device 1 has started
\* the action of BUTTON_1_JOY1, whose modifier is button 1 of device 0
C18_Witness ==
  /\ joystick_count = 2
  /\ held = {<<0, 1>>, <<1, 1>>}
  /\ \E e \in Threads : e.button_name = "BUTTON_1_JOY1" /\ e.pc = "start"

\* C20: without any joystick, start() enters the loop, and a key-down is
\* looked up under the id of its key and, when the table holds that id
\* without modifier, starts the thread of its action.
C20_KeyboardOnlyEngineRuns ==
  /\ []((joystick_count = 0 /\ pc = "launched") => ENABLED start)
  /\ [][joystick_count = 0 =>
          /\ (pc = "launched" /\ pc' # pc) => (pc' = "while" /\ running')
          /\ HandlesEvent("KEYDOWN") =>
               /\ pc' = "dispatch"
               /\ config_key' = (CASE event.key = "a" -> "a"
                                    [] event.key = "space" -> "KEY_SPACE")
          /\ (/\ pc = "fetch"
              /\ pc' = "for"
              /\ "modifier" \notin DOMAIN config[config_key])
               => Spawns(config_key, config[config_key])]_vars

\* no joystick, and the key a has started its action
C20_Witness ==
  /\ joystick_count = 0
  /\ running
  /\ \E e \in Threads : e.button_name = "a" /\ e.pc = "release"

\* the table of directions of the spec
DirectionTable ==
  [p \in {-1, 0, 1} \X {-1, 0, 1} |->
     CASE p = <<0, 1>> -> "up"
       [] p = <<1, 1>> -> "up-right"
       [] p = <<1, 0>> -> "right"
       [] p = <<1, -1>> -> "down-right"
       [] p = <<0, -1>> -> "down"
       [] p = <<-1, -1>> -> "down-left"
       [] p = <<-1, 0>> -> "left"
       [] p = <<-1, 1>> -> "up-left"
       [] p = <<0, 0>> -> "centered"]

\* C19: the direction _process_hat_event resolves for a sample (x, y), which
\* is the direction stored for the hat once the sample is handled, is the
\* value of the table for x, y in {-1, 0, 1} and centered for every pair
\* with an axis outside {-1, 0, 1}.
C19_DirectionIsTableValue ==
  [][HandlesEvent("JOYHATMOTION") =>
       GetHat(current_hat_positions', "HAT_0_JOY0") =
         IF event.value \in DOMAIN DirectionTable
           THEN DirectionTable[event.value]
           ELSE "centered"]_vars

\* the sample (-1, 1) has been resolved to up-left and is being dispatched
C19_Witness ==
  /\ pc = "dispatch"
  /\ config_key = "HAT_0_JOY0_up-left"
  /\ GetHat(current_hat_positions, "HAT_0_JOY0") = "up-left"

\* the types of the input events the loop has a branch for
InputTypes ==
  {"JOYBUTTONDOWN", "JOYBUTTONUP", "JOYHATMOTION", "KEYDOWN", "KEYUP"}

\* C21: pressed_buttons and current_hat_positions change only in a step of
\* the event loop that handles an input event: no step of a thread of
\* _execute_sequence and no reload_config changes them.
C21_OnlyTheLoopTracksInput ==
  [][(pressed_buttons' # pressed_buttons
        \/ current_hat_positions' # current_hat_positions)
       => /\ pc = "body"
          /\ event.type \in InputTypes
          /\ pc' \in {"for", "dispatch"}
          /\ executors' = executors
          /\ config' = config
          /\ last_reload' = last_reload]_vars

\* a button that was pressed before a reload and before the start of a
\* thread is still in pressed_buttons after the reload, the thread between
\* a press and its release
C21_Witness ==
  /\ pressed_buttons = {"BUTTON_1_JOY0"}
  /\ last_reload.result = "True"
  /\ \E e \in Threads : e.pc = "release"

\* C22: a trigger that passes the lookup and the modifier check adds exactly
\* one thread, in its start state, and leaves every other thread as it is,
\* also when a thread of the same name is running; a step of a thread
\* changes that thread only; and the sink calls of each thread stay in the
\* order of its own sequence.
C22_EveryTriggerSpawnsOne ==
  /\ [][(/\ pc = "fetch"
         /\ pc' = "for"
         /\ \/ "modifier" \notin DOMAIN config[config_key]
            \/ config[config_key].modifier \in pressed_buttons)
          => LET t == NewThread(config_key, config[config_key])
             IN  /\ CopiesIn(t, executors') = CopiesIn(t, executors) + 1
                 /\ BagCardinality(executors') = BagCardinality(executors) + 1
                 /\ \A e \in Threads :
                      e # t => CopiesIn(e, executors') = CopiesIn(e, executors)]_vars
  /\ [][(pc' = pc /\ executors' # executors)
          => \E d \in Threads :
               \/ executors' = executors (-) SetToBag({d})
               \/ \E e \in BagToSet(executors') : executors' = Becomes(d, e)]_vars
  /\ [](\A e \in Threads :
          e.fault = None =>
            IsPrefix(SinkCalls(e.trace),
                     ExpectedSink(e.button_config.sequence, 1)))

\* two threads of the action a run at the same time, one in its wait step
\* and one between a press and its release
C22_Witness ==
  \E e, d \in Threads :
    /\ e.button_name = "a"
    /\ d.button_name = "a"
    /\ e.pc = "wait"
    /\ d.pc = "release"

\* the positions of the calls named name in a trace
CallsAt(trace, name) == {k \in 1..Len(trace) : trace[k].call = name}

\* C23: in a thread that runs without fault, the preRun hook of an action
\* that has a callable one is called exactly once, as the first call of all,
\* as soon as the thread has left its start; the afterRun hook of an action
\* that has a callable one is called exactly once, as the last call of all,
\* after every sink call of the sequence, and the thread is then done; no
\* hook is called for an action that has none, and no sink call is made
\* before the thread has left its start.
C23_LifecycleIsOrdered ==
  \A e \in Threads :
    e.fault = None =>
      LET has(h) == /\ h \in DOMAIN e.button_config
                    /\ e.button_config[h] \in Callables
          pre == CallsAt(e.trace, "preRun")
          post == CallsAt(e.trace, "afterRun")
          sink == CallsAt(e.trace, "press") \cup CallsAt(e.trace, "release")
      IN  /\ pre = IF has("preRun") /\ e.pc # "start" THEN {1} ELSE {}
          /\ post = IF has("afterRun") /\ e.pc = "done"
                      THEN {Len(e.trace)} ELSE {}
          /\ e.pc = "start" => e.trace = <<>>
          /\ \A k \in sink : /\ \A b \in pre : b < k
                              /\ \A a \in post : k < a
          /\ e.pc \in {"afterRun", "done"} =>
               SinkCalls(e.trace) = ExpectedSink(e.button_config.sequence, 1)
          /\ \A k \in pre \cup post : e.trace[k].arg = e.button_name

\* a thread of the action a, which has both hooks, is done: its first call
\* is preRun, its last is afterRun, and six sink calls lie in between; and a
\* thread of KEY_SPACE, which has no hook, is done with sink calls only
C23_Witness ==
  /\ \E e \in Threads :
       /\ e.button_name = "a"
       /\ e.pc = "done"
       /\ e.fault = None
       /\ e.trace[1].call = "preRun"
       /\ e.trace[Len(e.trace)].call = "afterRun"
       /\ Len(SinkCalls(e.trace)) = 6
  /\ \E d \in Threads :
       /\ d.button_name = "KEY_SPACE"
       /\ d.pc = "done"
       /\ d.fault = None
       /\ Len(SinkCalls(d.trace)) = 2

\* the id a release event removes from the pressed set
ReleasedId ==
  IF event.type = "JOYBUTTONUP" THEN PressedName(event.button, event.joy)
  ELSE KeyId(event.key)

\* C24: the step that handles a JOYBUTTONUP or a KEYUP goes straight back to
\* the for loop without entering _process_button_press: it makes no thread,
\* selects no config key, and changes nothing but the pressed set, from
\* which it takes the released id.
C24_ReleaseNeverDispatches ==
  [][(HandlesEvent("JOYBUTTONUP") \/ HandlesEvent("KEYUP"))
       => /\ pc' = "for"
          /\ config_key' = None
          /\ executors' = executors
          /\ pressed_buttons' = pressed_buttons \ {ReleasedId}
          /\ UNCHANGED <<config, running, current_hat_positions, last_reload,
                         tested_config>>]_vars

\* the loop is about to handle the release of button 1 of joystick 1, whose
\* id is in the config and whose modifier BUTTON_1_JOY0 is held
C24_Witness ==
  /\ pc = "body"
  /\ event.type = "JOYBUTTONUP"
  /\ ReleasedId = "BUTTON_1_JOY1"
  /\ ReleasedId \in pressed_buttons
  /\ ReleasedId \in DOMAIN config
  /\ "modifier" \in DOMAIN config[ReleasedId]
  /\ config[ReleasedId].modifier \in pressed_buttons

\* the number of calls name(key) in a trace
CountCalls(trace, name, key) ==
  Cardinality({k \in 1..Len(trace) : trace[k] = Call(name, key)})

\* the keys a trace has pressed more often than released
KeysDown(trace) ==
  {trace[k].arg : k \in CallsAt(trace, "press")}
    \ {key \in {trace[k].arg : k \in CallsAt(trace, "press")} :
         CountCalls(trace, "press", key) = CountCalls(trace, "release", key)}

\* the number of calls name(key) all the threads of a set have made
RECURSIVE TotalCalls(_, _, _)
TotalCalls(threads, name, key) ==
  IF threads = {} THEN 0
  ELSE LET e == CHOOSE x \in threads : TRUE
       IN  CopiesIn(e, executors) * CountCalls(e.trace, name, key)
             + TotalCalls(threads \ {e}, name, key)

\* C25: whatever the other threads do, a thread that runs without fault has
\* at no moment more than one key down, that key is pressed exactly once
\* more than released, and no key is released more often than pressed; when
\* every thread is done without fault, the threads together have pressed
\* each key as often as they have released it.
C25_KeysAreReleased ==
  /\ \A e \in Threads :
       e.fault = None =>
         /\ Cardinality(KeysDown(e.trace)) <= 1
         /\ \A k \in CallsAt(e.trace, "press") \cup CallsAt(e.trace, "release") :
              LET key == e.trace[k].arg
                  down == CountCalls(e.trace, "press", key)
                            - CountCalls(e.trace, "release", key)
              IN  down \in {0, 1}
         /\ e.pc # "release" => KeysDown(e.trace) = {}
  /\ (\A e \in Threads : e.pc = "done" /\ e.fault = None)
       => \A key \in UNION {{e.trace[k].arg :
                                 k \in CallsAt(e.trace, "press")
                                        \cup CallsAt(e.trace, "release")} :
                               e \in Threads} :
            TotalCalls(Threads, "press", key)
              = TotalCalls(Threads, "release", key)

\* a thread of the action a holds x down in the second press of x, having
\* pressed and released v and x before, while a thread of KEY_SPACE is done
\* with one press and one release of c
C25_Witness ==
  \E e, d \in Threads :
    /\ e.button_name = "a"
    /\ e.fault = None
    /\ e.pc = "release"
    /\ KeysDown(e.trace) = {"x"}
    /\ CountCalls(e.trace, "press", "x") = 2
    /\ d.button_name = "KEY_SPACE"
    /\ d.pc = "done"
    /\ TotalCalls({d}, "press", "c") = 1
    /\ TotalCalls({d}, "release", "c") = 1

\* the number of threads that have run to their end
Completed ==
  BagCardinality(executors)
    - BagCardinality([e \in {d \in Threads : d.pc # "done"} |->
                        CopiesIn(e, executors)])

\* C26: with every runnable thread scheduled again and again and no call
\* raising, as soon as n threads have been made, n threads come to their
\* end, for every n: every thread made runs to its end, whatever events,
\* reloads, stop() calls, interrupts and other threads come in between.
C26_EveryExecutorCompletes ==
  \A n \in 1..MaxPair :
    (BagCardinality(executors) >= n) ~> (Completed >= n)

\* start() has returned after a stop(), a reload has replaced the config,
\* and the two threads made, one of them of the action a, are done
C26_Witness ==
  /\ pc = "exited"
  /\ ~running
  /\ last_reload.result = "True"
  /\ BagCardinality(executors) = 2
  /\ Completed = 2
  /\ \E e \in Threads : e.button_name = "a" /\ Len(SinkCalls(e.trace)) = 6

====
